---- MODULE Spec2Model ----
(***************************************************************************)
(* ElasticDelayBuffer (ff_buffers_ElasticDelayBuffer.h): a ring of samples *)
(* per channel with a write cursor, a read cursor, a published delay and   *)
(* one resampler per channel.                                              *)
(*                                                                         *)
(* Samples, gains and cell contents are small integers (products and sums  *)
(* of small integers are exact in float and double, so the arithmetic of   *)
(* copyFrom/addFrom is the integer arithmetic used here).  A resampling    *)
(* factor is a rational <<num, den>> with den > 0; the factors the code    *)
(* computes are 1 + difference/(8*numSamples), 0.0001 and                  *)
(* maxResamplingFactor, and they are compared exactly.                     *)
(***************************************************************************)
EXTENDS Integers, Sequences, FiniteSets

VARIABLES
    buffer,               \* juce::AudioBuffer contents: one sequence of bufferSize cells per channel
    bufferSize,           \* buffer.getNumSamples()
    resamplers,           \* one interpolation history per resampler
    writePosition,
    readPosition,
    numDelaySamples,      \* std::atomic<int>, read by getActualSampleDelay()
    maxResamplingFactor,
    lastOp,               \* the public operation that returned last
    numSamples,           \* the numSamples argument of that operation (0 when it has none)
    delayTime,            \* the delayTime argument of the last pullBlock (0 otherwise)
    factor,               \* the factor the last pullBlock handed to the resamplers
    used,                 \* the local `used` of the last pullBlock
    pending,              \* reference queue: the frames pushed and not yet consumed
    pushed,               \* number of frames pushed so far
    pulled,               \* number of frames consumed so far
    pushStart,            \* writePosition at the call of the last pushBlock
    gain,                 \* the gain argument of the last pushBlock or addToPushedBlock
    target,               \* the fixed delayTime of a caller that repeats push, pull
    block,                \* the fixed block size of that caller
    pc,                   \* audio thread: "idle", or "store" before the store of numDelaySamples
    observed,             \* what the monitoring thread's last getActualSampleDelay() returned
    returned              \* the cursor-derived delay at the return of the last completed operation

vars == <<buffer, bufferSize, resamplers, writePosition, readPosition,
          numDelaySamples, maxResamplingFactor, lastOp, numSamples, delayTime,
          factor, used, pending, pushed, pulled, pushStart, gain,
          target, block, pc, observed, returned>>

reference == <<pending, pushed, pulled>>

caller == <<target, block>>

monitor == <<pc, observed, returned>>

-----------------------------------------------------------------------------
(* Bounds *)

MaxN == 2
MaxChannels == 2
MaxRing == 3
MaxGain == 2
MaxTotal == 10
MaxDelay == 10
MaxBlock == 2
ScenarioCapacity == 1024
ScenarioBlock == 256

Capacities == 0..MaxN
ChannelCounts == 0..MaxChannels

(* An uninitialised int can hold anything; these stand for the outcomes. *)
Indeterminate == {-1, 0, 5}

-----------------------------------------------------------------------------
(* Rational factors *)

FLess(a, b) == a[1] * b[2] < b[1] * a[2]

FLeq(a, b) == a[1] * b[2] <= b[1] * a[2]

FEq(a, b) == a[1] * b[2] = b[1] * a[2]

One == <<1, 1>>

MinResamplingFactor == <<1, 10000>>

DefaultMaxResamplingFactor == <<8, 1>>

DampingBlocks == 8

MaxFactorChoices == {<<0, 1>>, <<1, 1>>, <<8, 1>>}

-----------------------------------------------------------------------------
(* juce::AudioBuffer *)

NumChannels == Len(buffer)

ZeroChannel(n) == [i \in 1..n |-> 0]

ZeroBuffer(c, n) == [ch \in 1..c |-> ZeroChannel(n)]

(* buffer.setSize (numChannels, numSamples, false, true): new, zeroed storage *)
(* when a dimension changes, nothing otherwise.                              *)
bufferSetSize(buf, size, c, n) ==
    IF Len(buf) = c /\ size = n THEN buf ELSE ZeroBuffer(c, n)

(* copyFrom (channel, destStart, source + srcStart, num, gain); positions are 0-based *)
copyFrom(chan, destStart, src, srcStart, num, g) ==
    [i \in 1..Len(chan) |->
        IF destStart < i /\ i <= destStart + num
        THEN g * src[srcStart + (i - destStart)]
        ELSE chan[i]]

(* addFrom (channel, destStart, source + srcStart, num, gain) *)
addFrom(chan, destStart, src, srcStart, num, g) ==
    [i \in 1..Len(chan) |->
        IF destStart < i /\ i <= destStart + num
        THEN chan[i] + g * src[srcStart + (i - destStart)]
        ELSE chan[i]]

-----------------------------------------------------------------------------
(* Cursor arithmetic *)

updateActualSampleDelay(w, r, size) ==
    IF w < r THEN w + size - r ELSE w - r

setSizeWritePosition(w, n) == IF w >= n THEN 0 ELSE w

assumedReadPosition(w, delay, size) ==
    LET assumedRead == w - delay
    IN  IF assumedRead < 0 THEN assumedRead + size ELSE assumedRead

pushAvailable(w, n, size) == size - (w + n)

(* Mutant: a wrapping push restarts at the beginning of the ring. *)
pushWritePosition_WrapToZero(w, n, size) ==
    IF pushAvailable(w, n, size) >= 0 THEN w + n ELSE 0

pushWritePosition(w, n, size) ==
    LET available == pushAvailable(w, n, size)
    IN  IF available >= 0 THEN w + n ELSE -available

(* Mutant: the wrapped part is copied from the start of the input again. *)
pushChannel_WrapFromStart(chan, w, src, n, g) ==
    LET available == pushAvailable(w, n, Len(chan))
    IN  IF available >= 0
        THEN copyFrom(chan, w, src, 0, n, g)
        ELSE copyFrom(copyFrom(chan, w, src, 0, n + available, g),
                      0, src, 0, -available, g)

pushChannel(chan, w, src, n, g) ==
    LET available == pushAvailable(w, n, Len(chan))
    IN  IF available >= 0
        THEN copyFrom(chan, w, src, 0, n, g)
        ELSE copyFrom(copyFrom(chan, w, src, 0, n + available, g),
                      0, src, n + available, -available, g)

previousWritePosition(w, n, size) ==
    LET previousWrite == w - n
    IN  IF previousWrite < 0 THEN previousWrite + size ELSE previousWrite

(* Mutant: the overlay overwrites the pushed samples instead of adding to them. *)
addChannel_Overwrites(chan, w, src, n, g) == pushChannel(chan, previousWritePosition(w, n, Len(chan)), src, n, g)

addChannel(chan, w, src, n, g) ==
    LET previousWrite == previousWritePosition(w, n, Len(chan))
        available == Len(chan) - (previousWrite + n)
    IN  IF available >= 0
        THEN addFrom(chan, previousWrite, src, 0, n, g)
        ELSE addFrom(addFrom(chan, previousWrite, src, 0, n + available, g),
                     0, src, n + available, -available, g)

(* Mutant: the block about to be consumed is not subtracted. *)
differenceOf_KeepsBlock(w, r, size, n, dt) ==
    LET currentDelay == w - r
    IN  (IF currentDelay < 0 THEN currentDelay + size ELSE currentDelay) - dt

currentDelayOf(w, r, size) ==
    LET currentDelay == w - r
    IN  IF currentDelay < 0 THEN currentDelay + size ELSE currentDelay

(* difference = (currentDelay - numSamples) - delayTime *)
differenceOf(w, r, size, n, dt) == (currentDelayOf(w, r, size) - n) - dt

(* factor = 1.0 + difference / (numSamples * 8.0), before the two clamps *)
rawFactor(difference, n) == <<n * DampingBlocks + difference, n * DampingBlocks>>

(* Mutant: the upper clamp is missing. *)
clampFactor_NoUpper(f, maxF) ==
    IF FLess(f, MinResamplingFactor) THEN MinResamplingFactor ELSE f

clampFactor(f, maxF) ==
    LET low == IF FLess(f, MinResamplingFactor) THEN MinResamplingFactor ELSE f
    IN  IF FLess(maxF, low) THEN maxF ELSE low

pullFactor(w, r, size, n, dt, maxF) ==
    clampFactor(rawFactor(differenceOf(w, r, size, n, dt), n), maxF)

(* Mutant: the read cursor is not wrapped. *)
pullReadPosition_NoWrap(r, u, size) == r + u

pullReadPosition(r, u, size) == (r + u) % size

-----------------------------------------------------------------------------
(* CircularLagrangeInterpolator: per-channel resampler.  process() is asked *)
(* for numOut output samples at a speed ratio and returns how many source   *)
(* samples it consumed: ratio * numOut rounded to an integer, down or up.   *)
(* It reads the ring from readPosition on, wrapping at the capacity.  Of    *)
(* its interpolation history the model keeps whether it holds source        *)
(* samples consumed since the last reset.                                   *)

FreshHistory == 0

PrimedHistory == 1

resetAll(rs) == [i \in 1..Len(rs) |-> FreshHistory]

floorUsed(f, numOut) == (numOut * f[1]) \div f[2]

ceilUsed(f, numOut) == (numOut * f[1] + f[2] - 1) \div f[2]

usedChoices(f, numOut) == {floorUsed(f, numOut), ceilUsed(f, numOut)}

(* The source samples a resampler reads when it consumes u samples from r on. *)
handed(chan, r, u) == [k \in 1..u |-> chan[((r + k - 1) % Len(chan)) + 1]]

historyAfter(hist, u) == IF u = 0 THEN hist ELSE PrimedHistory

process(f, hist, numOut) ==
    {[used |-> u, hist |-> historyAfter(hist, u)] : u \in usedChoices(f, numOut)}

-----------------------------------------------------------------------------
(* The public operations.  Each leaves the reference variables (ghost) to   *)
(* the specification that uses it.                                          *)

TypeOK ==
    /\ bufferSize \in Nat
    /\ writePosition \in Nat
    /\ readPosition \in Nat
    /\ numDelaySamples \in Int
    /\ Len(resamplers) = NumChannels
    /\ \A c \in 1..NumChannels : Len(buffer[c]) = bufferSize
    /\ maxResamplingFactor[2] > 0 /\ factor[2] > 0

Constructed ==
    /\ buffer = <<>>
    /\ bufferSize = 0
    /\ resamplers = <<>>
    /\ writePosition = 0
    /\ readPosition = 0
    /\ numDelaySamples \in Indeterminate
    /\ maxResamplingFactor = DefaultMaxResamplingFactor
    /\ lastOp = "constructor"
    /\ numSamples = 0
    /\ delayTime = 0
    /\ factor = One
    /\ used = 0
    /\ pushStart = 0
    /\ gain = 1

NoLocals ==
    /\ numSamples' = 0
    /\ delayTime' = 0
    /\ factor' = One
    /\ used' = 0
    /\ pushStart' = 0
    /\ gain' = 1

setSizeResamplers(rs, c, w, n) ==
    LET resized == [i \in 1..c |-> IF i <= Len(rs) THEN rs[i] ELSE FreshHistory]
    IN  IF w >= n THEN resetAll(resized) ELSE resized

setSizeBuffer(buf, size, c, w, n) ==
    LET resized == bufferSetSize(buf, size, c, n)
    IN  IF w >= n THEN ZeroBuffer(c, n) ELSE resized

(* setSize up to its last statement, the call of updateActualSampleDelay() *)
setSizeBody(c, n) ==
    /\ buffer' = setSizeBuffer(buffer, bufferSize, c, writePosition, n)
    /\ bufferSize' = n
    /\ resamplers' = setSizeResamplers(resamplers, c, writePosition, n)
    /\ writePosition' = setSizeWritePosition(writePosition, n)
    /\ lastOp' = "setSize"
    /\ NoLocals
    /\ UNCHANGED <<readPosition, maxResamplingFactor>>

setSize(c, n) ==
    /\ setSizeBody(c, n)
    /\ numDelaySamples' =
          updateActualSampleDelay(setSizeWritePosition(writePosition, n), readPosition, n)

(* Mutant: the jump of the read cursor also clears the stored samples. *)
setNumSamplesDelay_ClearsBuffer(delay) ==
    /\ delay < bufferSize
    /\ readPosition' = assumedReadPosition(writePosition, delay, bufferSize)
    /\ resamplers' = resetAll(resamplers)
    /\ buffer' = ZeroBuffer(NumChannels, bufferSize)
    /\ numDelaySamples' =
          updateActualSampleDelay(writePosition,
                                  assumedReadPosition(writePosition, delay, bufferSize),
                                  bufferSize)
    /\ lastOp' = "setNumSamplesDelay"
    /\ numSamples' = 0
    /\ delayTime' = delay
    /\ factor' = One
    /\ used' = 0
    /\ pushStart' = 0
    /\ gain' = 1
    /\ UNCHANGED <<bufferSize, writePosition, maxResamplingFactor>>

(* setNumSamplesDelay up to its last statement *)
setNumSamplesDelayBody(delay) ==
    /\ delay < bufferSize
    /\ readPosition' = assumedReadPosition(writePosition, delay, bufferSize)
    /\ resamplers' = resetAll(resamplers)
    /\ lastOp' = "setNumSamplesDelay"
    /\ numSamples' = 0
    /\ delayTime' = delay
    /\ factor' = One
    /\ used' = 0
    /\ pushStart' = 0
    /\ gain' = 1
    /\ UNCHANGED <<buffer, bufferSize, writePosition, maxResamplingFactor>>

setNumSamplesDelay(delay) ==
    /\ setNumSamplesDelayBody(delay)
    /\ numDelaySamples' =
          updateActualSampleDelay(writePosition,
                                  assumedReadPosition(writePosition, delay, bufferSize),
                                  bufferSize)

setMaxResamplingFactor(f) ==
    /\ maxResamplingFactor' = f
    /\ lastOp' = "setMaxResamplingFactor"
    /\ NoLocals
    /\ UNCHANGED <<buffer, bufferSize, resamplers, writePosition, readPosition,
                   numDelaySamples>>

(* Mutant: reset() also discards what is buffered. *)
reset_DropsBuffered ==
    /\ resamplers' = resetAll(resamplers)
    /\ readPosition' = writePosition
    /\ numDelaySamples' = 0
    /\ lastOp' = "reset"
    /\ NoLocals
    /\ UNCHANGED <<buffer, bufferSize, writePosition, maxResamplingFactor>>

reset ==
    /\ resamplers' = resetAll(resamplers)
    /\ lastOp' = "reset"
    /\ NoLocals
    /\ UNCHANGED <<buffer, bufferSize, writePosition, readPosition,
                   numDelaySamples, maxResamplingFactor>>

(* Mutant: the delay is computed before the write cursor moves. *)
pushDelay_Stale(w, r, n, size) == updateActualSampleDelay(w, r, size)

pushDelay(w, r, n, size) ==
    updateActualSampleDelay(pushWritePosition(w, n, size), r, size)

(* pushBlock up to its last statement *)
pushBlockBody(inputBuffer, n, g) ==
    /\ bufferSize > n
    /\ NumChannels = Len(inputBuffer)
    /\ buffer' = [i \in 1..NumChannels |->
                     pushChannel(buffer[i], writePosition, inputBuffer[i], n, g)]
    /\ writePosition' = pushWritePosition(writePosition, n, bufferSize)
    /\ lastOp' = "pushBlock"
    /\ numSamples' = n
    /\ delayTime' = 0
    /\ factor' = One
    /\ used' = 0
    /\ pushStart' = writePosition
    /\ gain' = g
    /\ UNCHANGED <<bufferSize, resamplers, readPosition, maxResamplingFactor>>

pushBlock(inputBuffer, n, g) ==
    /\ pushBlockBody(inputBuffer, n, g)
    /\ numDelaySamples' = pushDelay(writePosition, readPosition, n, bufferSize)

(* Mutant: the write cursor is rewound to the start of the overlaid region. *)
addToPushedBlock_Rewinds(inputBuffer, n, g) ==
    /\ bufferSize > n
    /\ NumChannels = Len(inputBuffer)
    /\ buffer' = [i \in 1..NumChannels |->
                     addChannel(buffer[i], writePosition, inputBuffer[i], n, g)]
    /\ writePosition' = previousWritePosition(writePosition, n, bufferSize)
    /\ lastOp' = "addToPushedBlock"
    /\ numSamples' = n
    /\ delayTime' = 0
    /\ factor' = One
    /\ used' = 0
    /\ gain' = g
    /\ pushStart' = pushStart
    /\ UNCHANGED <<bufferSize, resamplers, readPosition,
                   numDelaySamples, maxResamplingFactor>>

addToPushedBlock(inputBuffer, n, g) ==
    /\ bufferSize > n
    /\ NumChannels = Len(inputBuffer)
    /\ buffer' = [i \in 1..NumChannels |->
                     addChannel(buffer[i], writePosition, inputBuffer[i], n, g)]
    /\ lastOp' = "addToPushedBlock"
    /\ numSamples' = n
    /\ delayTime' = 0
    /\ factor' = One
    /\ used' = 0
    /\ gain' = g
    /\ pushStart' = pushStart
    /\ UNCHANGED <<bufferSize, resamplers, writePosition, readPosition,
                   numDelaySamples, maxResamplingFactor>>

(* One result per channel, each from that channel's resampler. *)
processAll(f, n) ==
    LET each == [c \in 1..NumChannels |->
                    process(f, resamplers[c], n)]
    IN  {res \in [1..NumChannels -> UNION {each[c] : c \in 1..NumChannels}] :
            \A c \in 1..NumChannels : res[c] \in each[c]}

(* `used` is overwritten by every channel: the last channel's count stands. *)
lastUsed(res) == IF Len(res) = 0 THEN 0 ELSE res[Len(res)].used

(* pullBlock up to its last statement *)
pullBlockBody(n, dt) ==
    /\ bufferSize > n
    /\ NumChannels = Len(resamplers)
    /\ LET f == pullFactor(writePosition, readPosition, bufferSize, n, dt,
                           maxResamplingFactor)
       IN  \E res \in processAll(f, n) :
              /\ factor' = f
              /\ used' = lastUsed(res)
              /\ resamplers' = [c \in 1..NumChannels |-> res[c].hist]
              /\ readPosition' = pullReadPosition(readPosition, lastUsed(res), bufferSize)
    /\ lastOp' = "pullBlock"
    /\ numSamples' = n
    /\ delayTime' = dt
    /\ pushStart' = 0
    /\ gain' = 1
    /\ UNCHANGED <<buffer, bufferSize, writePosition, maxResamplingFactor>>

pullBlock(n, dt) ==
    /\ pullBlockBody(n, dt)
    /\ numDelaySamples' = updateActualSampleDelay(writePosition, readPosition', bufferSize)

-----------------------------------------------------------------------------
(* Spec: every operation, in any order, on unit samples with unit gain.     *)
(* addToPushedBlock is used as documented: on the block pushed last.        *)

UnitInput(c, n) == [ch \in 1..c |-> [k \in 1..n |-> 1]]

NoReference ==
    /\ pending = <<>>
    /\ pushed = 0
    /\ pulled = 0

NoCaller ==
    /\ target = 0
    /\ block = 0

(* No monitoring thread: the audio thread is between two operations. *)
NoMonitor ==
    /\ pc = "idle"
    /\ observed = <<>>
    /\ returned = 0

Init == Constructed /\ NoReference /\ NoCaller /\ NoMonitor

BlockSizes == 1..MaxN

DelayTimes == {0, DampingBlocks * MaxN}

DoSetSize ==
    \E c \in ChannelCounts, n \in Capacities :
        setSize(c, n) /\ UNCHANGED <<reference, caller, monitor>>

DoSetNumSamplesDelay ==
    \E d \in 0..MaxN : setNumSamplesDelay(d) /\ UNCHANGED <<reference, caller, monitor>>

DoSetMaxResamplingFactor ==
    \E f \in MaxFactorChoices :
        setMaxResamplingFactor(f) /\ UNCHANGED <<reference, caller, monitor>>

DoReset == reset /\ UNCHANGED <<reference, caller, monitor>>

DoPushBlock ==
    \E n \in BlockSizes :
        pushBlock(UnitInput(NumChannels, n), n, 1) /\ UNCHANGED <<reference, caller, monitor>>

DoAddToPushedBlock ==
    \E n \in BlockSizes :
        /\ lastOp = "pushBlock"
        /\ numSamples = n
        /\ addToPushedBlock(UnitInput(NumChannels, n), n, 1)
        /\ UNCHANGED <<reference, caller, monitor>>

DoPullBlock ==
    \E n \in BlockSizes, dt \in DelayTimes :
        pullBlock(n, dt) /\ UNCHANGED <<reference, caller, monitor>>

Next ==
    \/ DoSetSize
    \/ DoSetNumSamplesDelay
    \/ DoSetMaxResamplingFactor
    \/ DoReset
    \/ DoPushBlock
    \/ DoAddToPushedBlock
    \/ DoPullBlock

Spec == Init /\ [][Next]_vars

-----------------------------------------------------------------------------
(* SpecData: a sized buffer; the caller pushes an incrementing counter     *)
(* (frame i carries CounterSample(c, i) on channel c) with a gain of its   *)
(* choice, may overlay a ramp on the block it pushed last, and pulls.      *)
(* pending is the queue an ideal delay line would hold.                    *)

(* The gain of the push that follows `count` pushed frames, and of an    *)
(* overlay on it: every gain in 1..MaxGain is used, overlays differ from *)
(* the push they lie on when MaxGain > 1.                               *)
PushGain(count) == 1 + (count % MaxGain)

OverlayGain(count) == 1 + ((count + 1) % MaxGain)

RingSizes == 2..MaxRing

CounterSample(c, i) == i * (MaxChannels + 1) + c

CounterInput(c, n, from) ==
    [ch \in 1..c |-> [k \in 1..n |-> CounterSample(ch, from + k)]]

OverlaySample(c, k) == k + c

OverlayInput(c, n) == [ch \in 1..c |-> [k \in 1..n |-> OverlaySample(ch, k)]]

Sized(c, n) ==
    /\ buffer = ZeroBuffer(c, n)
    /\ bufferSize = n
    /\ resamplers = [i \in 1..c |-> FreshHistory]
    /\ writePosition = 0
    /\ readPosition = 0
    /\ numDelaySamples = 0
    /\ maxResamplingFactor = DefaultMaxResamplingFactor
    /\ lastOp = "setSize"
    /\ numSamples = 0
    /\ delayTime = 0
    /\ factor = One
    /\ used = 0
    /\ pushStart = 0
    /\ gain = 1

DataInit ==
    /\ \E c \in 1..MaxChannels, n \in RingSizes : Sized(c, n)
    /\ pending = <<>>
    /\ pushed = 0
    /\ pulled = 0
    /\ NoCaller
    /\ NoMonitor

(* The caller never overruns the ring: the buffered delay stays below N. *)
DataPush ==
    \E n \in 1..MaxRing :
        /\ pushed + n <= MaxTotal
        /\ Len(pending) + n < bufferSize
        /\ pushBlock(CounterInput(NumChannels, n, pushed), n, PushGain(pushed))
        /\ pushed' = pushed + n
        /\ pending' = pending \o
               [k \in 1..n |->
                   [ch \in 1..NumChannels |->
                       PushGain(pushed) * CounterSample(ch, pushed + k)]]
        /\ UNCHANGED <<pulled, caller, monitor>>

DataAdd ==
    LET g == OverlayGain(pushed) IN
        /\ lastOp = "pushBlock"
        /\ addToPushedBlock(OverlayInput(NumChannels, numSamples), numSamples, g)
        /\ pending' =
              [i \in 1..Len(pending) |->
                  IF i - (Len(pending) - numSamples) >= 1
                  THEN [ch \in 1..NumChannels |->
                           pending[i][ch]
                             + g * OverlaySample(ch, i - (Len(pending) - numSamples))]
                  ELSE pending[i]]
        /\ UNCHANGED <<pushed, pulled, caller, monitor>>

(* Only pulls that consume no more than is buffered are followed. *)
DataPull ==
    \E n \in 1..MaxRing, dt \in {0, MaxRing} :
        /\ pullBlock(n, dt)
        /\ used' <= Len(pending)
        /\ pending' = SubSeq(pending, used' + 1, Len(pending))
        /\ pulled' = pulled + used'
        /\ UNCHANGED <<pushed, caller, monitor>>

DataNext ==
    \/ DataPush
    \/ DataAdd
    \/ DataPull

SpecData == DataInit /\ [][DataNext]_vars

-----------------------------------------------------------------------------
(* SpecConv: a one-channel buffer, sized and given an explicit delay, whose *)
(* caller then repeats pushBlock(block), pullBlock(block, target) for ever.  *)
(* The ring is large enough for every delay the caller can see.             *)

ConvCapacity == MaxDelay + MaxBlock + 1

Delayed(c, n, d) ==
    /\ buffer = ZeroBuffer(c, n)
    /\ bufferSize = n
    /\ resamplers = [i \in 1..c |-> FreshHistory]
    /\ writePosition = 0
    /\ readPosition = assumedReadPosition(0, d, n)
    /\ numDelaySamples = d
    /\ maxResamplingFactor = DefaultMaxResamplingFactor
    /\ lastOp = "setNumSamplesDelay"
    /\ numSamples = 0
    /\ delayTime = d
    /\ factor = One
    /\ used = 0
    /\ pushStart = 0
    /\ gain = 1

ConvInit ==
    /\ \E d \in 0..MaxDelay : Delayed(1, ConvCapacity, d)
    /\ target \in 0..MaxDelay
    /\ block \in 1..MaxBlock
    /\ NoReference
    /\ NoMonitor

ConvPush ==
    /\ lastOp # "pushBlock"
    /\ pushBlock(UnitInput(NumChannels, block), block, 1)
    /\ UNCHANGED <<reference, caller, monitor>>

ConvPull ==
    /\ lastOp = "pushBlock"
    /\ pullBlock(block, target)
    /\ UNCHANGED <<reference, caller, monitor>>

ConvNext ==
    \/ ConvPush
    \/ ConvPull

SpecConv == ConvInit /\ [][ConvNext]_vars /\ WF_vars(ConvNext)

-----------------------------------------------------------------------------
(* SpecScenario: a freshly sized two-channel buffer; the caller pushes one *)
(* block of a linear ramp with gain 1 and pulls a block of the same length *)
(* with delayTime equal to that length.                                    *)

RampInput(c, n) == [ch \in 1..c |-> [k \in 1..n |-> k]]

ScenarioInit ==
    /\ Sized(2, ScenarioCapacity)
    /\ NoReference
    /\ NoCaller
    /\ NoMonitor

ScenarioPush ==
    \E n \in 1..ScenarioBlock :
        /\ lastOp = "setSize"
        /\ pushBlock(RampInput(NumChannels, n), n, 1)
        /\ UNCHANGED <<reference, caller, monitor>>

ScenarioPull ==
    /\ lastOp = "pushBlock"
    /\ pullBlock(numSamples, numSamples)
    /\ UNCHANGED <<reference, caller, monitor>>

ScenarioNext ==
    \/ ScenarioPush
    \/ ScenarioPull

SpecScenario == ScenarioInit /\ [][ScenarioNext]_vars

-----------------------------------------------------------------------------
(* SpecAtomic: the audio thread performs setSize, setNumSamplesDelay,      *)
(* pushBlock and pullBlock, each in two steps: its body, then the store of *)
(* numDelaySamples that updateActualSampleDelay() does as the last         *)
(* statement.  A monitoring thread calls getActualSampleDelay() at any     *)
(* moment.  numDelaySamples is the only field the two threads share.  In   *)
(* this specification lastOp names the operation called last.              *)

(* The delay derived from the cursors as they are now. *)
CursorDelay ==
    IF writePosition >= readPosition
    THEN writePosition - readPosition
    ELSE writePosition + bufferSize - readPosition

(* The audio thread enters the body of an operation; a value the monitor   *)
(* read before this step is no longer the latest.                          *)
Called ==
    /\ pc = "idle"
    /\ pc' = "store"
    /\ observed' = <<>>
    /\ UNCHANGED <<numDelaySamples, returned, reference, caller>>

AtomicSetSize ==
    \E c \in ChannelCounts, n \in Capacities : setSizeBody(c, n) /\ Called

AtomicSetNumSamplesDelay ==
    \E d \in 0..MaxN : setNumSamplesDelayBody(d) /\ Called

AtomicPushBlock ==
    \E n \in BlockSizes : pushBlockBody(UnitInput(NumChannels, n), n, 1) /\ Called

AtomicPullBlock ==
    \E n \in BlockSizes, dt \in DelayTimes : pullBlockBody(n, dt) /\ Called

(* updateActualSampleDelay() and the return of the operation *)
AtomicReturn ==
    /\ pc = "store"
    /\ numDelaySamples' =
          updateActualSampleDelay(writePosition, readPosition, bufferSize)
    /\ returned' = CursorDelay
    /\ pc' = "idle"
    /\ observed' = <<>>
    /\ UNCHANGED <<buffer, bufferSize, resamplers, writePosition, readPosition,
                   maxResamplingFactor, lastOp, numSamples, delayTime, factor,
                   used, pushStart, gain, reference, caller>>

(* getActualSampleDelay() on the monitoring thread: one atomic load *)
getActualSampleDelay ==
    /\ observed' = <<numDelaySamples>>
    /\ UNCHANGED <<buffer, bufferSize, resamplers, writePosition, readPosition,
                   numDelaySamples, maxResamplingFactor, lastOp, numSamples,
                   delayTime, factor, used, pushStart, gain, reference, caller,
                   pc, returned>>

AtomicNext ==
    \/ AtomicSetSize
    \/ AtomicSetNumSamplesDelay
    \/ AtomicPushBlock
    \/ AtomicPullBlock
    \/ AtomicReturn
    \/ getActualSampleDelay

SpecAtomic == Init /\ [][AtomicNext]_vars

-----------------------------------------------------------------------------
(* Claims checked under Spec *)

CursorOps == {"setSize", "setNumSamplesDelay", "pushBlock", "pullBlock"}

(* C1: after any sequence of calls that respect the preconditions, both    *)
(* cursors are inside the ring: 0 <= writePosition < N and                 *)
(* 0 <= readPosition < N, N being the current capacity.                    *)
C1_CursorsInsideRing ==
    (lastOp # "constructor" /\ bufferSize > 0) =>
        /\ 0 <= writePosition /\ writePosition < bufferSize
        /\ 0 <= readPosition /\ readPosition < bufferSize

(* C2: when setSize, setNumSamplesDelay, pushBlock or pullBlock has        *)
(* returned, getActualSampleDelay() equals the delay derived from the      *)
(* cursors: writePos - readPos if writePos >= readPos, otherwise           *)
(* writePos + N - readPos.                                                 *)
C2_DelayMatchesCursors ==
    lastOp \in CursorOps =>
        numDelaySamples = IF writePosition >= readPosition
                          THEN writePosition - readPosition
                          ELSE writePosition + bufferSize - readPosition

C2_Witness ==
    /\ lastOp = "pullBlock"
    /\ used > 0
    /\ writePosition < readPosition
    /\ readPosition < bufferSize
    /\ numDelaySamples = writePosition + bufferSize - readPosition

(* C4 as stated: whatever setMaxResamplingFactor was given, the factor     *)
(* handed to the resamplers satisfies 0.0001 <= f <= maxResamplingFactor.  *)
C4_FactorWithinClamps ==
    lastOp = "pullBlock" =>
        /\ FLeq(MinResamplingFactor, factor)
        /\ FLeq(factor, maxResamplingFactor)

(* C4 amended: the factor handed to the resamplers never exceeds           *)
(* maxResamplingFactor, and it is at least 0.0001 whenever                 *)
(* maxResamplingFactor is at least 0.0001.                                 *)
C4_FactorClamped ==
    lastOp = "pullBlock" =>
        /\ FLeq(factor, maxResamplingFactor)
        /\ FLeq(MinResamplingFactor, maxResamplingFactor) =>
               FLeq(MinResamplingFactor, factor)

C4_Witness ==
    /\ lastOp = "pullBlock"
    /\ delayTime = DampingBlocks * MaxN
    /\ factor = MinResamplingFactor
    /\ FLess(factor, maxResamplingFactor)

(* C6: pushBlock with 0 < numSamples < N sets writePosition to             *)
(* (old writePosition + numSamples) mod N, also when the block ends        *)
(* exactly at the end of the ring.                                         *)
C6_PushAdvancesModN ==
    [][lastOp' = "pushBlock" =>
          writePosition' = (writePosition + numSamples') % bufferSize]_vars

(* C9: addToPushedBlock leaves writePosition, readPosition, the published  *)
(* delay, maxResamplingFactor and every resampler history unchanged; only  *)
(* stored samples change.                                                  *)
C9_AddKeepsCursors ==
    [][lastOp' = "addToPushedBlock" =>
          /\ UNCHANGED <<writePosition, readPosition, numDelaySamples,
                         maxResamplingFactor, resamplers, bufferSize>>
          /\ Len(buffer') = Len(buffer)]_vars

C9_Witness ==
    /\ lastOp = "addToPushedBlock"
    /\ NumChannels > 0
    /\ \E i \in 1..bufferSize : buffer[1][i] = 2

(* C10: after setNumSamplesDelay(D) with 0 <= D < N, readPosition equals   *)
(* (writePosition - D) mod N and getActualSampleDelay() returns D.         *)
C10_DelayJump ==
    lastOp = "setNumSamplesDelay" =>
        /\ readPosition = (writePosition - delayTime) % bufferSize
        /\ numDelaySamples = delayTime

(* C11: when setSize(channels, samples) is called with                     *)
(* writePosition >= samples, then on return writePosition and readPosition *)
(* are 0, every stored sample is 0, every resampler history is reset and   *)
(* getActualSampleDelay() returns 0.                                       *)
C11_HardReset ==
    [][(lastOp' = "setSize" /\ writePosition >= bufferSize') =>
          /\ writePosition' = 0
          /\ readPosition' = 0
          /\ buffer' = ZeroBuffer(Len(buffer'), bufferSize')
          /\ resamplers' = resetAll(resamplers')
          /\ numDelaySamples' = 0]_vars

(* A setSize that keeps the capacity and changes the channel count. *)
ChannelResize ==
    /\ lastOp' = "setSize"
    /\ bufferSize' = bufferSize
    /\ Len(buffer') # Len(buffer)

KeptChannels == 1..(IF Len(buffer') < Len(buffer) THEN Len(buffer') ELSE Len(buffer))

(* C13: shrinking the channel count with setSize and growing it back, at   *)
(* the same capacity, resets only the resampler history of the re-added    *)
(* channels: neither the shrinking call nor the growing call that follows  *)
(* it changes the history of a channel that is never removed.              *)
C13_ChannelResizeKeepsHistory ==
    [][(ChannelResize /\ (Len(buffer') < Len(buffer) \/ lastOp = "setSize")) =>
          \A c \in KeptChannels : resamplers'[c] = resamplers[c]]_vars

(* C14: setNumSamplesDelay(D) resets the history of every resampler and  *)
(* leaves every stored sample and writePosition unchanged; only            *)
(* readPosition, the resampler histories and the published delay change.   *)
C14_DelayJumpKeepsSamples ==
    [][lastOp' = "setNumSamplesDelay" =>
          /\ resamplers' = [c \in 1..NumChannels |-> FreshHistory]
          /\ UNCHANGED <<buffer, bufferSize, writePosition,
                         maxResamplingFactor>>]_vars

C14_Witness ==
    /\ lastOp = "setNumSamplesDelay"
    /\ NumChannels = 2
    /\ bufferSize > 1
    /\ \A c \in 1..NumChannels : buffer[c][1] = 1
    /\ readPosition < writePosition
    /\ numDelaySamples = delayTime
    /\ delayTime > 0

(* C15: reset() resets the history of every resampler and leaves           *)
(* writePosition, readPosition, the published delay, maxResamplingFactor   *)
(* and every stored sample unchanged.                                      *)
C15_ResetKeepsCursors ==
    [][lastOp' = "reset" =>
          /\ resamplers' = [c \in 1..NumChannels |-> FreshHistory]
          /\ UNCHANGED <<buffer, bufferSize, writePosition, readPosition,
                         numDelaySamples, maxResamplingFactor>>]_vars

C15_Witness ==
    /\ lastOp = "reset"
    /\ NumChannels = 2
    /\ bufferSize > 1
    /\ \A c \in 1..NumChannels : buffer[c][1] = 1
    /\ numDelaySamples = 1
    /\ readPosition = 1
    /\ maxResamplingFactor # DefaultMaxResamplingFactor

(* C17: pullBlock advances readPosition once, to                           *)
(* (old readPosition + used) mod N, used being the count the last          *)
(* channel's resampler returned (0 when there are no channels), and leaves *)
(* writePosition, maxResamplingFactor and every stored sample unchanged.   *)
C17_PullAdvancesRead ==
    [][lastOp' = "pullBlock" =>
          /\ readPosition' = (readPosition + used') % bufferSize
          /\ NumChannels = 0 => used' = 0
          /\ NumChannels > 0 => used' \in usedChoices(factor', numSamples')
          /\ UNCHANGED <<writePosition, maxResamplingFactor, buffer,
                         bufferSize>>]_vars

C17_Witness ==
    /\ lastOp = "pullBlock"
    /\ NumChannels = 2
    /\ used > 0
    /\ readPosition = 0
    /\ writePosition = 1
    /\ buffer[1][1] = 1

(* (currentDelay - numSamples) - delayTime with                           *)
(* currentDelay = (writePosition - readPosition) mod N, for the pull that  *)
(* a step performs.                                                        *)
ClaimedDifference ==
    (((writePosition - readPosition) % bufferSize) - numSamples') - delayTime'

(* C18: with maxResamplingFactor >= 1 the factor pullBlock applies is      *)
(* greater than 1 when (currentDelay - numSamples) > delayTime, equal to 1 *)
(* when they are equal and less than 1 when it is smaller, currentDelay    *)
(* being (writePosition - readPosition) mod N at the call.                 *)
C18_ControlDirection ==
    [][(lastOp' = "pullBlock" /\ FLeq(One, maxResamplingFactor)) =>
          /\ ClaimedDifference > 0 => FLess(One, factor')
          /\ ClaimedDifference = 0 => FEq(factor', One)
          /\ ClaimedDifference < 0 => FLess(factor', One)]_vars

(* C19: pullBlock never moves the read cursor past the write cursor: the  *)
(* number of source samples it consumes is at most the buffered delay      *)
(* (writePosition - readPosition) mod N at the call, so the delay never    *)
(* wraps from a small value to a value near N.                             *)
C19_NoUnderrun ==
    [][lastOp' = "pullBlock" =>
          used' <= (writePosition - readPosition) % bufferSize]_vars

(* C20: in every state after setSize with N > 0, getActualSampleDelay()    *)
(* lies in 0..N-1: it is a delay that setNumSamplesDelay would accept.     *)
C20_DelayBelowCapacity ==
    (lastOp # "constructor" /\ bufferSize > 0) =>
        /\ 0 <= numDelaySamples
        /\ numDelaySamples < bufferSize

-----------------------------------------------------------------------------
(* Claims checked under SpecData *)

(* Ring index i (0-based) lies k = Offset(i, start) cells after start. *)
Offset(i, start) == (i - start) % bufferSize

(* C5: while pushes and pulls wrap the ring and the buffered delay stays   *)
(* below N and is never overdrawn, the source samples handed to the        *)
(* resamplers by a pull (ring indices readPosition, readPosition + 1, ...  *)
(* modulo N, for the consumed count) are the pushed samples in push order: *)
(* none skipped, repeated or overwritten.                                  *)
C5_RingIsFifo ==
    [][lastOp' = "pullBlock" =>
          \A c \in 1..NumChannels : \A k \in 1..used' :
              handed(buffer[c], readPosition, used')[k] = pending[k][c]]_vars

C5_Witness ==
    /\ lastOp = "pullBlock"
    /\ used > 0
    /\ pushed > 2 * bufferSize
    /\ pulled > 2 * bufferSize

(* C7: pushBlock stores gain * input[c][k] at ring index                   *)
(* (old writePosition + k) mod N of every channel c, k = 0..numSamples-1,  *)
(* and leaves every other cell unchanged, wrapping or not.                 *)
C7_PushStores ==
    [][lastOp' = "pushBlock" =>
          /\ Len(buffer') = Len(buffer)
          /\ \A c \in 1..NumChannels : \A i \in 0..(bufferSize - 1) :
                buffer'[c][i + 1] =
                    IF Offset(i, writePosition) < numSamples'
                    THEN gain' * CounterSample(c, pushed + Offset(i, writePosition) + 1)
                    ELSE buffer[c][i + 1]]_vars

C7_Witness ==
    /\ lastOp = "pushBlock"
    /\ NumChannels = 2
    /\ gain = 2
    /\ 0 < writePosition
    /\ writePosition < numSamples

(* C8: addToPushedBlock(input2, n, gain2) directly after                   *)
(* pushBlock(input1, n, gain1) adds gain2 * input2[c][k] to the cell the   *)
(* push wrote input1[c][k] into, so that cell holds                        *)
(* gain1 * input1[c][k] + gain2 * input2[c][k]; no other cell changes.     *)
C8_AddOverlaysPush ==
    [][(lastOp = "pushBlock" /\ lastOp' = "addToPushedBlock"
            /\ numSamples' = numSamples) =>
          /\ Len(buffer') = Len(buffer)
          /\ \A c \in 1..NumChannels : \A i \in 0..(bufferSize - 1) :
                buffer'[c][i + 1] =
                    IF Offset(i, pushStart) < numSamples
                    THEN gain * CounterSample(c, pushed - numSamples
                                                   + Offset(i, pushStart) + 1)
                           + gain' * OverlaySample(c, Offset(i, pushStart) + 1)
                    ELSE buffer[c][i + 1]]_vars

C8_Witness ==
    /\ lastOp = "addToPushedBlock"
    /\ NumChannels = 2
    /\ pushStart < bufferSize
    /\ pushStart + numSamples > bufferSize
    /\ writePosition = pushStart + numSamples - bufferSize

-----------------------------------------------------------------------------
(* Claims checked under SpecConv *)

Abs(x) == IF x < 0 THEN -x ELSE x

(* On a pull step the state before it is the one the push left: its delay  *)
(* less the block is the delay the previous pull (or the start) left.      *)
ErrorBefore == Abs((numDelaySamples - block) - target)

ErrorAfter == Abs(numDelaySamples' - target)

NonIncreasingStep == lastOp' = "pullBlock" => ErrorAfter <= ErrorBefore

(* C3 as stated: repeating pushBlock(B), pullBlock(B, D), with the         *)
(* resamplers consuming factor * B rounded to an integer, makes            *)
(* |actualDelay - D| after each pull non-increasing, and the delay         *)
(* eventually comes within one sample of D and stays there.                *)
C3_ConvergesWithinOne ==
    /\ [][NonIncreasingStep]_vars
    /\ <>[](lastOp = "pullBlock" => Abs(numDelaySamples - target) <= 1)

-----------------------------------------------------------------------------
(* Claims checked under SpecScenario *)

ScenarioPullStep ==
    /\ lastOp = "pushBlock"
    /\ lastOp' = "pullBlock"
    /\ numSamples' = numSamples
    /\ delayTime' = numSamples

(* C12 as stated: after one push of 256 samples into the freshly sized     *)
(* buffer, pullBlock(256, delayTime = 256) computes difference = 0,        *)
(* applies factor 1.0 and consumes exactly 256 source samples.             *)
C12_ScenarioUnity ==
    [][(ScenarioPullStep /\ numSamples = ScenarioBlock) =>
          /\ differenceOf(writePosition, readPosition, bufferSize,
                          numSamples', delayTime') = 0
          /\ factor' = One
          /\ used' = numSamples']_vars

(* C12 amended: that pull computes difference = -numSamples (-256),        *)
(* applies factor 1 - 1/8 = 0.875 and consumes 7/8 of the block: exactly   *)
(* 224 source samples for 256, and 0.875 * numSamples rounded down or up   *)
(* for a block that is no multiple of 8.                                   *)
C12_ScenarioFactor ==
    [][ScenarioPullStep =>
          /\ differenceOf(writePosition, readPosition, bufferSize,
                          numSamples', delayTime') = -numSamples
          /\ FEq(factor', <<DampingBlocks - 1, DampingBlocks>>)
          /\ (DampingBlocks - 1) * numSamples - DampingBlocks < DampingBlocks * used'
          /\ DampingBlocks * used' < (DampingBlocks - 1) * numSamples + DampingBlocks
          /\ numSamples % DampingBlocks = 0 =>
                DampingBlocks * used' = (DampingBlocks - 1) * numSamples]_vars

C12_Witness ==
    /\ lastOp = "pullBlock"
    /\ NumChannels = 2
    /\ numSamples = ScenarioBlock
    /\ delayTime = ScenarioBlock
    /\ DampingBlocks * used = (DampingBlocks - 1) * numSamples
    /\ readPosition = used
    /\ numDelaySamples = numSamples - used

-----------------------------------------------------------------------------
(* Claims checked under SpecAtomic *)

(* C16: a getActualSampleDelay() on the monitoring thread, concurrent with *)
(* the audio thread's setSize / setNumSamplesDelay / pushBlock / pullBlock,*)
(* returns the cursor-derived delay as it was at the return of a completed *)
(* operation: the one before the operation in progress, or the operation   *)
(* in progress (whose cursors are final when it stores the delay).         *)
C16_AtomicSnapshot ==
    observed # <<>> =>
        \/ observed[1] = returned
        \/ pc = "store" /\ observed[1] = CursorDelay

====
